---- MODULE Spec2Model ----
(***************************************************************************)
(* Model of package enum (JeffreyRichter/enum): reflection-based symbol    *)
(* enumeration (GetSymbols), formatting (String, StringInt,                *)
(* StringUintFlags) and parsing (Parse, ParseInt, ParseUintFlags).         *)
(*                                                                         *)
(* A text is a sequence of one-character strings, so that case folding,    *)
(* splitting, trimming, number formatting and number parsing are computed  *)
(* character by character as the Go code and its library calls do.         *)
(***************************************************************************)
EXTENDS Integers, Sequences, FiniteSets, TLC

(***************************************************************************)
(* Bounds of the explored input space.                                     *)
(***************************************************************************)
\* flag values 0..MaxFlagValue are formatted (plus the values of the examples)
MaxFlagValue == 8
\* scalar values -MaxScalar..MaxScalar are formatted (plus the examples' values)
MaxScalar == 4
\* the user callback stops at its k-th invocation, k in 1..MaxStopAt (0: never)
MaxStopAt == 4
\* the values of a type wider than MaxValueBits bits are explored below 2^MaxValueBits
MaxValueBits == 29

(***************************************************************************)
(* Characters and texts.                                                   *)
(***************************************************************************)
\* the printable ASCII characters, code 32 to code 126, in code order (code 96, the
\* grave accent, is spelled out: no text of the model holds it)
PrintableAscii ==
  << " ", "!", "\"", "#", "$", "%", "&", "'", "(", ")", "*", "+", ",", "-", ".", "/",
     "0", "1", "2", "3", "4", "5", "6", "7", "8", "9", ":", ";", "<", "=", ">", "?",
     "@", "A", "B", "C", "D", "E", "F", "G", "H", "I", "J", "K", "L", "M", "N", "O",
     "P", "Q", "R", "S", "T", "U", "V", "W", "X", "Y", "Z", "[", "\\", "]", "^", "_",
     "(grave)", "a", "b", "c", "d", "e", "f", "g", "h", "i", "j", "k", "l", "m", "n", "o",
     "p", "q", "r", "s", "t", "u", "v", "w", "x", "y", "z", "{", "|", "}", "~" >>

\* the byte value of a character
Ord(c) == 31 + (CHOOSE i \in 1..Len(PrintableAscii) : PrintableAscii[i] = c)

\* the character of a byte value
Chr(n) == PrintableAscii[n - 31]

IsUpper(c) == Ord(c) >= 65 /\ Ord(c) <= 90

IsDigit(c) == Ord(c) >= 48 /\ Ord(c) <= 57

\* lower case of a letter (strconv's lower, one character of strings.ToLower)
LowerChar(c) == IF IsUpper(c) THEN Chr(Ord(c) + 32) ELSE c

\* strings.ToLower
ToLower(s) == [i \in 1..Len(s) |-> LowerChar(s[i])]

\* s < t in Go's string order (byte-wise lexicographic)
RECURSIVE TextLess(_, _)
TextLess(s, t) ==
  IF t = << >> THEN FALSE
  ELSE IF s = << >> THEN TRUE
  ELSE IF Ord(Head(s)) # Ord(Head(t)) THEN Ord(Head(s)) < Ord(Head(t))
  ELSE TextLess(Tail(s), Tail(t))

\* strings.TrimSpace (the only white space of the alphabet is the blank)
RECURSIVE TrimLeft(_)
TrimLeft(s) == IF s # << >> /\ Head(s) = " " THEN TrimLeft(Tail(s)) ELSE s

RECURSIVE TrimRight(_)
TrimRight(s) ==
  IF s # << >> /\ s[Len(s)] = " " THEN TrimRight(SubSeq(s, 1, Len(s) - 1)) ELSE s

TrimSpace(s) == TrimRight(TrimLeft(s))

\* strings.Split(s, ","): the pieces between commas; one empty piece for ""
RECURSIVE SplitFrom(_, _)
SplitFrom(s, piece) ==
  IF s = << >> THEN << piece >>
  ELSE IF Head(s) = "," THEN << piece >> \o SplitFrom(Tail(s), << >>)
  ELSE SplitFrom(Tail(s), Append(piece, Head(s)))

Split(s) == SplitFrom(s, << >>)

(***************************************************************************)
(* Integers of a given width.                                              *)
(***************************************************************************)
RECURSIVE Pow2(_)
Pow2(n) == IF n = 0 THEN 1 ELSE 2 * Pow2(n - 1)

\* n <= 2^bits - 1, for a number n below 2^31 (the numbers TLC has)
FitsBelowPow2(n, bits) == bits >= 31 \/ n < Pow2(bits)

RECURSIVE BitAnd(_, _)
BitAnd(a, b) ==
  IF a = 0 \/ b = 0 THEN 0
  ELSE (a % 2) * (b % 2) + 2 * BitAnd(a \div 2, b \div 2)

RECURSIVE BitOr(_, _)
BitOr(a, b) ==
  IF a = 0 THEN b
  ELSE IF b = 0 THEN a
  ELSE (IF a % 2 = 1 \/ b % 2 = 1 THEN 1 ELSE 0) + 2 * BitOr(a \div 2, b \div 2)

RECURSIVE BitXor(_, _)
BitXor(a, b) ==
  IF a = 0 THEN b
  ELSE IF b = 0 THEN a
  ELSE ((a + b) % 2) + 2 * BitXor(a \div 2, b \div 2)

(***************************************************************************)
(* strconv and fmt.                                                        *)
(***************************************************************************)
\* the digit of a character in strconv's digit loop; 99 for a character that is no digit
DigitVal(c) ==
  IF IsDigit(c) THEN Ord(c) - 48
  ELSE IF Ord(LowerChar(c)) >= 97 /\ Ord(LowerChar(c)) <= 122 THEN Ord(LowerChar(c)) - 97 + 10
  ELSE 99

DigitChar(d) == IF d < 10 THEN Chr(48 + d) ELSE Chr(97 + d - 10)

\* strconv.FormatUint(n, base)
RECURSIVE FormatUint(_, _)
FormatUint(n, base) ==
  IF n < base THEN << DigitChar(n) >>
  ELSE Append(FormatUint(n \div base, base), DigitChar(n % base))

\* fmt.Sprintf("%d", n) of an integer
SprintfD(n) == IF n < 0 THEN << "-" >> \o FormatUint(-n, 10) ELSE FormatUint(n, 10)

\* the base and the digits that strconv.ParseUint(s, 0, _) selects for a non-empty s
BasePrefix(s) ==
  IF Head(s) = "0"
  THEN IF Len(s) >= 3 /\ LowerChar(s[2]) = "b" THEN [base |-> 2, digits |-> SubSeq(s, 3, Len(s))]
       ELSE IF Len(s) >= 3 /\ LowerChar(s[2]) = "o" THEN [base |-> 8, digits |-> SubSeq(s, 3, Len(s))]
       ELSE IF Len(s) >= 3 /\ LowerChar(s[2]) = "x" THEN [base |-> 16, digits |-> SubSeq(s, 3, Len(s))]
       ELSE [base |-> 8, digits |-> Tail(s)]
  ELSE [base |-> 10, digits |-> s]

\* strconv's underscoreOK: underscores only between digits or after a base prefix
RECURSIVE UnderscoreScan(_, _, _)
UnderscoreScan(s, i, hex) ==
  IF s = << >> THEN i # "_"
  ELSE IF IsDigit(Head(s)) \/ (hex /\ DigitVal(Head(s)) >= 10 /\ DigitVal(Head(s)) <= 15)
       THEN UnderscoreScan(Tail(s), "0", hex)
  ELSE IF Head(s) = "_"
       THEN IF i # "0" THEN FALSE ELSE UnderscoreScan(Tail(s), "_", hex)
  ELSE IF i = "_" THEN FALSE
  ELSE UnderscoreScan(Tail(s), "!", hex)

UnderscoreOK(s0) ==
  LET s == IF s0 # << >> /\ Head(s0) \in {"-", "+"} THEN Tail(s0) ELSE s0
      pfx == Len(s) >= 2 /\ s[1] = "0" /\ LowerChar(s[2]) \in {"b", "o", "x"}
  IN UnderscoreScan(IF pfx THEN SubSeq(s, 3, Len(s)) ELSE s,
                    IF pfx THEN "0" ELSE "^",
                    pfx /\ LowerChar(s[2]) = "x")

\* the number hi * 2^16 + lo exceeds the greatest unsigned value of bitSize bits
\* (bitSize at most 32; lo < 2^16)
ExceedsBits(hi, lo, bitSize) ==
  IF bitSize <= 16 THEN hi > 0 \/ lo >= Pow2(bitSize) ELSE hi >= Pow2(bitSize - 16)

\* the digit loop of strconv.ParseUint over the digits s, the number read so far being
\* hi * 2^16 + lo: it stops at the first character that is no digit of the base and at
\* the first digit that takes the number out of range
RECURSIVE DigitLoop(_, _, _, _, _)
DigitLoop(s, base, bitSize, hi, lo) ==
  IF s = << >> THEN [err |-> "nil", val |-> hi * 65536 + lo]
  ELSE IF Head(s) = "_" THEN DigitLoop(Tail(s), base, bitSize, hi, lo)
  ELSE IF DigitVal(Head(s)) >= base THEN [err |-> "syntax", val |-> 0]
  ELSE LET lo1 == lo * base + DigitVal(Head(s))
           hi1 == hi * base + (lo1 \div 65536)
       IN IF ExceedsBits(hi1, lo1 % 65536, bitSize) THEN [err |-> "range", val |-> 0]
          ELSE DigitLoop(Tail(s), base, bitSize, hi1, lo1 % 65536)

\* strconv.ParseUint(s, 0, bitSize): err is "nil", "syntax", "range" or "bitsize"
ParseUintLit(s, bitSize) ==
  IF s = << >> THEN [err |-> "syntax", val |-> 0]
  ELSE LET p == BasePrefix(s)
           n == DigitLoop(p.digits, p.base, bitSize, 0, 0)
       IN IF bitSize > 64 THEN [err |-> "bitsize", val |-> 0]
          ELSE IF n.err # "nil" THEN n
          ELSE IF (\E i \in 1..Len(s) : s[i] = "_") /\ ~ UnderscoreOK(s)
               THEN [err |-> "syntax", val |-> 0]
          ELSE n

\* strconv.ParseInt(s, 0, bitSize)
ParseIntLit(s, bitSize) ==
  IF s = << >> THEN [err |-> "syntax", val |-> 0]
  ELSE LET neg == Head(s) = "-"
           rest == IF Head(s) \in {"+", "-"} THEN Tail(s) ELSE s
           un == ParseUintLit(rest, bitSize)
       IN IF un.err \in {"syntax", "bitsize"} THEN [err |-> un.err, val |-> 0]
          ELSE IF ~ neg /\ ~ FitsBelowPow2(un.val, bitSize - 1) THEN [err |-> "range", val |-> 0]
          ELSE IF neg /\ ~ FitsBelowPow2(un.val - 1, bitSize - 1) THEN [err |-> "range", val |-> 0]
          ELSE IF un.err = "range" THEN [err |-> "range", val |-> 0]
          ELSE [err |-> "nil", val |-> IF neg THEN -un.val ELSE un.val]

(***************************************************************************)
(* Enum types.  A type is described by what reflect reports of it: its     *)
(* name, the kind and bit width of its underlying type, its zero value and *)
(* its declared methods, in declaration order.  A method has its name, its *)
(* number of inputs (the receiver included), its output types ("enum" is   *)
(* the enum type itself), whether its receiver is a pointer, and what it   *)
(* returns for a zero-valued receiver: a symbol method returns the         *)
(* constant value; impl names the package function a String method calls.  *)
(***************************************************************************)
\* type Color int16 with its methods (the reflection example)
Color ==
  [name |-> << "C", "o", "l", "o", "r" >>, kind |-> "int", bits |-> 16, zero |-> 0,
   methods |-> <<
     [name |-> << "N", "o", "n", "e" >>, numIn |-> 1, outs |-> << "enum" >>, ptrRecv |-> FALSE, impl |-> "symbol", value |-> 0],
     [name |-> << "R", "e", "d" >>, numIn |-> 1, outs |-> << "enum" >>, ptrRecv |-> FALSE, impl |-> "symbol", value |-> 1],
     [name |-> << "G", "r", "e", "e", "n" >>, numIn |-> 1, outs |-> << "enum" >>, ptrRecv |-> FALSE, impl |-> "symbol", value |-> 2],
     [name |-> << "B", "l", "u", "e" >>, numIn |-> 1, outs |-> << "enum" >>, ptrRecv |-> FALSE, impl |-> "symbol", value |-> 3],
     [name |-> << "S", "t", "r", "i", "n", "g" >>, numIn |-> 1, outs |-> << "string" >>, ptrRecv |-> FALSE, impl |-> "StringInt", value |-> 0],
     [name |-> << "P", "a", "r", "s", "e" >>, numIn |-> 2, outs |-> << "error" >>, ptrRecv |-> TRUE, impl |-> "other", value |-> 0],
     [name |-> << "S", "t", "r", "i", "n", "g", "F", "a", "s", "t" >>, numIn |-> 1, outs |-> << "string" >>, ptrRecv |-> FALSE, impl |-> "other", value |-> 0],
     [name |-> << "P", "a", "r", "s", "e", "F", "a", "s", "t" >>, numIn |-> 2, outs |-> << "error" >>, ptrRecv |-> TRUE, impl |-> "other", value |-> 0] >>]

\* type Color uint8 with its methods (the package test)
ColorU8 ==
  [name |-> << "C", "o", "l", "o", "r" >>, kind |-> "uint", bits |-> 8, zero |-> 0,
   methods |-> <<
     [name |-> << "N", "o", "n", "e" >>, numIn |-> 1, outs |-> << "enum" >>, ptrRecv |-> FALSE, impl |-> "symbol", value |-> 0],
     [name |-> << "R", "e", "d" >>, numIn |-> 1, outs |-> << "enum" >>, ptrRecv |-> FALSE, impl |-> "symbol", value |-> 1],
     [name |-> << "G", "r", "e", "e", "n" >>, numIn |-> 1, outs |-> << "enum" >>, ptrRecv |-> FALSE, impl |-> "symbol", value |-> 2],
     [name |-> << "B", "l", "u", "e" >>, numIn |-> 1, outs |-> << "enum" >>, ptrRecv |-> FALSE, impl |-> "symbol", value |-> 3],
     [name |-> << "S", "t", "r", "i", "n", "g" >>, numIn |-> 1, outs |-> << "string" >>, ptrRecv |-> FALSE, impl |-> "StringInt", value |-> 0],
     [name |-> << "P", "a", "r", "s", "e" >>, numIn |-> 2, outs |-> << "error" >>, ptrRecv |-> TRUE, impl |-> "other", value |-> 0] >>]

\* type SASProtocol string with its methods (the package test)
SASProtocol ==
  [name |-> << "S", "A", "S", "P", "r", "o", "t", "o", "c", "o", "l" >>, kind |-> "string", bits |-> 128, zero |-> << >>,
   methods |-> <<
     [name |-> << "N", "o", "n", "e" >>, numIn |-> 1, outs |-> << "enum" >>, ptrRecv |-> FALSE, impl |-> "symbol", value |-> << >>],
     [name |-> << "H", "t", "t", "p", "s" >>, numIn |-> 1, outs |-> << "enum" >>, ptrRecv |-> FALSE, impl |-> "symbol", value |-> << "h", "t", "t", "p", "s" >>],
     [name |-> << "H", "t", "t", "p", "s", "A", "n", "d", "H", "t", "t", "p" >>, numIn |-> 1, outs |-> << "enum" >>, ptrRecv |-> FALSE, impl |-> "symbol", value |-> << "h", "t", "t", "p", "s", ",", "h", "t", "t", "p" >>],
     [name |-> << "S", "t", "r", "i", "n", "g" >>, numIn |-> 1, outs |-> << "string" >>, ptrRecv |-> FALSE, impl |-> "String", value |-> << >>],
     [name |-> << "P", "a", "r", "s", "e" >>, numIn |-> 2, outs |-> << "error" >>, ptrRecv |-> TRUE, impl |-> "other", value |-> << >>] >>]

\* type Access uint32 with its methods (the bit flag example)
Access ==
  [name |-> << "A", "c", "c", "e", "s", "s" >>, kind |-> "uint", bits |-> 32, zero |-> 0,
   methods |-> <<
     [name |-> << "N", "o", "n", "e" >>, numIn |-> 1, outs |-> << "enum" >>, ptrRecv |-> FALSE, impl |-> "symbol", value |-> 0],
     [name |-> << "R", "e", "a", "d" >>, numIn |-> 1, outs |-> << "enum" >>, ptrRecv |-> FALSE, impl |-> "symbol", value |-> 1],
     [name |-> << "W", "r", "i", "t", "e" >>, numIn |-> 1, outs |-> << "enum" >>, ptrRecv |-> FALSE, impl |-> "symbol", value |-> 2],
     [name |-> << "E", "x", "e", "c", "u", "t", "e" >>, numIn |-> 1, outs |-> << "enum" >>, ptrRecv |-> FALSE, impl |-> "symbol", value |-> 4],
     [name |-> << "I", "s", "S", "e", "t" >>, numIn |-> 2, outs |-> << "bool" >>, ptrRecv |-> FALSE, impl |-> "other", value |-> 0],
     [name |-> << "S", "t", "r", "i", "n", "g" >>, numIn |-> 1, outs |-> << "string" >>, ptrRecv |-> FALSE, impl |-> "StringUintFlags", value |-> 0],
     [name |-> << "P", "a", "r", "s", "e" >>, numIn |-> 2, outs |-> << "error" >>, ptrRecv |-> TRUE, impl |-> "other", value |-> 0] >>]

\* a flag type with no zero-valued symbol and a symbol of two bits
Perm ==
  [name |-> << "P", "e", "r", "m" >>, kind |-> "uint", bits |-> 8, zero |-> 0,
   methods |-> <<
     [name |-> << "R", "e", "a", "d" >>, numIn |-> 1, outs |-> << "enum" >>, ptrRecv |-> FALSE, impl |-> "symbol", value |-> 1],
     [name |-> << "W", "r", "i", "t", "e" >>, numIn |-> 1, outs |-> << "enum" >>, ptrRecv |-> FALSE, impl |-> "symbol", value |-> 2],
     [name |-> << "R", "e", "a", "d", "W", "r", "i", "t", "e" >>, numIn |-> 1, outs |-> << "enum" >>, ptrRecv |-> FALSE, impl |-> "symbol", value |-> 3] >>]

\* a signed type with negative values, two symbols of one value and two names that
\* differ only in letter case
Shade ==
  [name |-> << "S", "h", "a", "d", "e" >>, kind |-> "int", bits |-> 8, zero |-> 0,
   methods |-> <<
     [name |-> << "D", "a", "r", "k" >>, numIn |-> 1, outs |-> << "enum" >>, ptrRecv |-> FALSE, impl |-> "symbol", value |-> -1],
     [name |-> << "D", "A", "R", "K" >>, numIn |-> 1, outs |-> << "enum" >>, ptrRecv |-> FALSE, impl |-> "symbol", value |-> -2],
     [name |-> << "B", "l", "a", "c", "k" >>, numIn |-> 1, outs |-> << "enum" >>, ptrRecv |-> FALSE, impl |-> "symbol", value |-> -2],
     [name |-> << "L", "i", "g", "h", "t" >>, numIn |-> 1, outs |-> << "enum" >>, ptrRecv |-> FALSE, impl |-> "symbol", value |-> 1] >>]

\* a flag type with two zero-valued symbols
Mode ==
  [name |-> << "M", "o", "d", "e" >>, kind |-> "uint", bits |-> 8, zero |-> 0,
   methods |-> <<
     [name |-> << "O", "f", "f" >>, numIn |-> 1, outs |-> << "enum" >>, ptrRecv |-> FALSE, impl |-> "symbol", value |-> 0],
     [name |-> << "N", "o", "n", "e" >>, numIn |-> 1, outs |-> << "enum" >>, ptrRecv |-> FALSE, impl |-> "symbol", value |-> 0],
     [name |-> << "O", "n" >>, numIn |-> 1, outs |-> << "enum" >>, ptrRecv |-> FALSE, impl |-> "symbol", value |-> 1],
     [name |-> << "F", "a", "s", "t" >>, numIn |-> 1, outs |-> << "enum" >>, ptrRecv |-> FALSE, impl |-> "symbol", value |-> 6] >>]

\* a type with no symbol method
Unit ==
  [name |-> << "U", "n", "i", "t" >>, kind |-> "uint", bits |-> 8, zero |-> 0,
   methods |-> <<
     [name |-> << "S", "t", "r", "i", "n", "g" >>, numIn |-> 1, outs |-> << "string" >>, ptrRecv |-> FALSE, impl |-> "StringInt", value |-> 0] >>]

\* the enum types of the model, by identifier
TypeIds == {"Color", "ColorU8", "SASProtocol", "Access", "Perm", "Shade", "Mode", "Unit"}

EnumType(id) ==
  CASE id = "Color" -> Color
    [] id = "ColorU8" -> ColorU8
    [] id = "SASProtocol" -> SASProtocol
    [] id = "Access" -> Access
    [] id = "Perm" -> Perm
    [] id = "Shade" -> Shade
    [] id = "Mode" -> Mode
    [] id = "Unit" -> Unit

\* the types with an integer representation, and those with an unsigned one
IntTypeIds == {id \in TypeIds : EnumType(id).kind \in {"int", "uint"}}

UintTypeIds == {id \in TypeIds : EnumType(id).kind = "uint"}

(***************************************************************************)
(* reflect: the method table of a type.                                    *)
(***************************************************************************)
\* the methods reflect exposes for enumType: the exported methods of the value
\* type's method set
Exposed(method) == IsUpper(Head(method.name)) /\ ~ method.ptrRecv

\* the methods of ms, the least name first
RECURSIVE SortByName(_)
SortByName(ms) ==
  IF ms = << >> THEN << >>
  ELSE LET i == CHOOSE i \in 1..Len(ms) :
                  \A j \in 1..Len(ms) : ~ TextLess(ms[j].name, ms[i].name)
       IN << ms[i] >> \o SortByName(SubSeq(ms, 1, i - 1) \o SubSeq(ms, i + 1, Len(ms)))

\* MethodTable changed: the methods in declaration order
MethodTable_Declared(enumType) == SelectSeq(enumType.methods, Exposed)

\* reflect's method table: enumType.Method(0) .. enumType.Method(NumMethod()-1),
\* sorted by method name
MethodTable(enumType) == SortByName(SelectSeq(enumType.methods, Exposed))

NumMethod(enumType) == Len(MethodTable(enumType))

\* enumType.Method(m), m counted from 0
Method(enumType, m) == MethodTable(enumType)[m + 1]

(***************************************************************************)
(* GetSymbols and the callbacks of the package.                            *)
(***************************************************************************)
\* isValidEnumSymbolMethod changed: the type of the output is not compared
isValidEnumSymbolMethod_AnyOut(enumType, m) == m.numIn = 1 /\ Len(m.outs) = 1

isValidEnumSymbolMethod(enumType, m) ==
  m.numIn = 1 /\ Len(m.outs) = 1 /\ m.outs[1] = "enum"

\* the symbols of a type: name and value, in enumeration order
Symbols(enumType) ==
  LET valid(m) == isValidEnumSymbolMethod(enumType, m)
      ms == SelectSeq(MethodTable(enumType), valid)
  IN [i \in 1..Len(ms) |-> [name |-> ms[i].name, value |-> ms[i].value]]

\* the variables the callbacks capture, before the enumeration
NewClosure == [symbolResult |-> << >>, bitsFound |-> 0, symbolNames |-> << >>, seen |-> << >>]

\* StringCallback changed: the enumeration goes on after a match
StringCallback_NoStop(enumValue, acc, symbol, value) ==
  IF value = enumValue
  THEN [stop |-> FALSE, acc |-> [acc EXCEPT !.symbolResult = symbol], panic |-> FALSE]
  ELSE [stop |-> FALSE, acc |-> acc, panic |-> FALSE]

\* the callback of String
StringCallback(enumValue, acc, symbol, value) ==
  IF value = enumValue
  THEN [stop |-> TRUE, acc |-> [acc EXCEPT !.symbolResult = symbol], panic |-> FALSE]
  ELSE [stop |-> FALSE, acc |-> acc, panic |-> FALSE]

\* FlagsCallback changed: a symbol is listed when it shares a bit with the value
FlagsCallback_AnyBit(intValue, acc, symbolName, symbolValue, symbolKind) ==
  IF symbolKind # "uint"
  THEN [stop |-> FALSE, acc |-> acc, panic |-> TRUE]
  ELSE LET symVal == symbolValue
       IN IF intValue = 0 /\ symVal = 0
          THEN [stop |-> TRUE, acc |-> [acc EXCEPT !.symbolNames = @ \o symbolName],
                panic |-> FALSE]
          ELSE IF symVal # 0 /\ BitAnd(intValue, symVal) # 0
          THEN [stop |-> FALSE,
                acc |-> [acc EXCEPT !.bitsFound = BitOr(@, symVal),
                                    !.symbolNames = (IF Len(@) > 0 THEN @ \o << ",", " " >> ELSE @)
                                                    \o symbolName],
                panic |-> FALSE]
          ELSE [stop |-> FALSE, acc |-> acc, panic |-> FALSE]

\* FlagsCallback changed: the enumeration goes on after the zero-valued symbol
FlagsCallback_ZeroNoStop(intValue, acc, symbolName, symbolValue, symbolKind) ==
  IF symbolKind # "uint"
  THEN [stop |-> FALSE, acc |-> acc, panic |-> TRUE]
  ELSE LET symVal == symbolValue
       IN IF intValue = 0 /\ symVal = 0
          THEN [stop |-> FALSE, acc |-> [acc EXCEPT !.symbolNames = @ \o symbolName],
                panic |-> FALSE]
          ELSE IF symVal # 0 /\ BitAnd(intValue, symVal) = symVal
          THEN [stop |-> FALSE,
                acc |-> [acc EXCEPT !.bitsFound = BitOr(@, symVal),
                                    !.symbolNames = (IF Len(@) > 0 THEN @ \o << ",", " " >> ELSE @)
                                                    \o symbolName],
                panic |-> FALSE]
          ELSE [stop |-> FALSE, acc |-> acc, panic |-> FALSE]

\* the callback of StringUintFlags; symbolKind is the kind of the value that the
\* interface symbolValue holds: reflect.ValueOf(symbolValue).Uint() panics unless it
\* is an unsigned integer
FlagsCallback(intValue, acc, symbolName, symbolValue, symbolKind) ==
  IF symbolKind # "uint"
  THEN [stop |-> FALSE, acc |-> acc, panic |-> TRUE]
  ELSE LET symVal == symbolValue
       IN IF intValue = 0 /\ symVal = 0
          THEN [stop |-> TRUE, acc |-> [acc EXCEPT !.symbolNames = @ \o symbolName],
                panic |-> FALSE]
          ELSE IF symVal # 0 /\ BitAnd(intValue, symVal) = symVal
          THEN [stop |-> FALSE,
                acc |-> [acc EXCEPT !.bitsFound = BitOr(@, symVal),
                                    !.symbolNames = (IF Len(@) > 0 THEN @ \o << ",", " " >> ELSE @)
                                                    \o symbolName],
                panic |-> FALSE]
          ELSE [stop |-> FALSE, acc |-> acc, panic |-> FALSE]

\* a caller's callback: records the symbol it is passed and asks to stop at its
\* stopAt-th invocation (never when stopAt = 0)
UserCallback(stopAt, acc, enumSymbolName, enumSymbolValue) ==
  LET seen == Append(acc.seen, [name |-> enumSymbolName, value |-> enumSymbolValue])
  IN [stop |-> Len(seen) = stopAt, acc |-> [acc EXCEPT !.seen = seen], panic |-> FALSE]

\* esi(method.Name, value) for the callback cb; kind is the kind of value
Esi(cb, acc, name, value, kind) ==
  CASE cb.kind = "String" -> StringCallback(cb.value, acc, name, value)
    [] cb.kind = "Flags" -> FlagsCallback(cb.value, acc, name, value, kind)
    [] cb.kind = "User" -> UserCallback(cb.stopAt, acc, name, value)

\* GetSymbols before its loop
LoopStart ==
  [m |-> 0, returned |-> FALSE, panicked |-> FALSE, acc |-> NewClosure, invoked |-> << >>,
   calls |-> << >>]

\* GetSymbols has left its loop: it returned, or the callback panicked
LoopDone(enumType, st) == st.returned \/ st.panicked \/ st.m >= NumMethod(enumType)

\* EsiReturned changed: what the callback returns is ignored
EsiReturned_IgnoreStop(st, name, value, r) ==
  [m |-> IF r.panic THEN st.m ELSE st.m + 1,
   returned |-> FALSE,
   panicked |-> r.panic,
   acc |-> r.acc,
   invoked |-> Append(st.invoked, name),
   calls |-> Append(st.calls, [name |-> name, value |-> value])]

\* GetSymbols after esi(method.Name, value) came back with r: it returns when r.stop,
\* the panic of the callback goes through it when r.panic, else the loop goes on
EsiReturned(st, name, value, r) ==
  [m |-> IF r.stop \/ r.panic THEN st.m ELSE st.m + 1,
   returned |-> r.stop,
   panicked |-> r.panic,
   acc |-> r.acc,
   invoked |-> Append(st.invoked, name),
   calls |-> Append(st.calls, [name |-> name, value |-> value])]

\* one iteration of the loop of GetSymbols
GetSymbolsBody(enumType, cb, st) ==
  LET method == Method(enumType, st.m)
  IN IF ~ isValidEnumSymbolMethod(enumType, method)
     THEN [st EXCEPT !.m = @ + 1]
     ELSE EsiReturned(st, method.name, method.value,
                      Esi(cb, st.acc, method.name, method.value, enumType.kind))

RECURSIVE GetSymbolsLoop(_, _, _)
GetSymbolsLoop(enumType, cb, st) ==
  IF LoopDone(enumType, st) THEN st
  ELSE GetSymbolsLoop(enumType, cb, GetSymbolsBody(enumType, cb, st))

\* GetSymbols(enumType, esi): the state in which it returns
GetSymbols(enumType, cb) == GetSymbolsLoop(enumType, cb, LoopStart)

(***************************************************************************)
(* The formatters.                                                         *)
(***************************************************************************)
String(enumValue, enumType) ==
  GetSymbols(enumType, [kind |-> "String", value |-> enumValue]).acc.symbolResult

\* StringInt after its call of String returned symbolName
StringIntReturn(intValue, symbolName) ==
  IF symbolName # << >> THEN symbolName ELSE SprintfD(intValue)

StringInt(intValue, enumType) == StringIntReturn(intValue, String(intValue, enumType))

\* StringUintFlags after GetSymbols returned
FlagsReturn(intValue, intBase, acc) ==
  IF acc.bitsFound # intValue
  THEN (IF Len(acc.symbolNames) > 0 THEN acc.symbolNames \o << ",", " " >> ELSE acc.symbolNames)
       \o << "0", "x" >> \o FormatUint(BitXor(intValue, acc.bitsFound), intBase)
  ELSE acc.symbolNames

\* StringUintFlags after GetSymbols left its loop in the state st: its text, or the
\* record of kind "panic" when the callback panicked
FlagsOutcome(intValue, intBase, st) ==
  IF st.panicked THEN [kind |-> "panic"] ELSE FlagsReturn(intValue, intBase, st.acc)

StringUintFlags(intValue, enumType, intBase) ==
  FlagsOutcome(intValue, intBase, GetSymbols(enumType, [kind |-> "Flags", value |-> intValue]))

(***************************************************************************)
(* The parsers.  A result is a record: kind "ok" with the value val,       *)
(* kind "err" with the error err (and no val when the Go value is nil),    *)
(* or kind "panic" when the call does not return.                          *)
(***************************************************************************)
\* fmt.Errorf("couldn't parse %q into a %q", s, enumType.Name())
ParseError(s, enumType) == [text |-> s, typeName |-> enumType.name]

\* findMethod changed: names are always compared in lower case
findMethod_AlwaysFold(enumType, methodName, caseInsensitive) ==
  LET same(m) == ToLower(m.name) = ToLower(methodName)
      hits == SelectSeq(MethodTable(enumType), same)
  IN IF hits = << >> THEN << >> ELSE << Head(hits) >>

\* findMethod changed: the last method whose lower-case name matches is taken
findMethod_LastFold(enumType, methodName, caseInsensitive) ==
  LET same(m) == IF caseInsensitive THEN ToLower(m.name) = ToLower(methodName)
                 ELSE m.name = methodName
      hits == SelectSeq(MethodTable(enumType), same)
  IN IF hits = << >> THEN << >> ELSE << hits[Len(hits)] >>

\* findMethod: the method found, as a sequence of at most one method
findMethod(enumType, methodName, caseInsensitive) ==
  LET same(m) == IF caseInsensitive THEN ToLower(m.name) = ToLower(methodName)
                 ELSE m.name = methodName
      hits == SelectSeq(MethodTable(enumType), same)
  IN IF hits = << >> THEN << >> ELSE << Head(hits) >>

\* what method returns when called with a zero-valued receiver
MethodReturn(enumType, method) ==
  CASE method.impl = "symbol" -> method.value
    [] method.impl = "String" -> String(enumType.zero, enumType)
    [] method.impl = "StringInt" -> StringInt(enumType.zero, enumType)
    [] method.impl = "StringUintFlags" -> StringUintFlags(enumType.zero, enumType, 16)

\* reflect can convert a value of the output type to enumType
Convertible(out, enumType) == out = "enum" \/ (out = "string" /\ enumType.kind = "string")

\* Parse: method.Func.Call(args[:])[0].Convert(enumType) panics when the method takes
\* more than the receiver, returns nothing, or returns what cannot be converted
Parse(enumType, s, caseInsensitive) ==
  LET found == findMethod(enumType, s, caseInsensitive)
  IN IF found # << >>
     THEN LET method == found[1]
          IN IF method.numIn # 1 \/ method.outs = << >> \/ ~ Convertible(method.outs[1], enumType)
             THEN [kind |-> "panic"]
             ELSE [kind |-> "ok", val |-> MethodReturn(enumType, method)]
     ELSE [kind |-> "err", err |-> ParseError(s, enumType)]

\* ParseInt changed: the literal is always parsed as an unsigned one
ParseInt_Unsigned(enumType, s, caseInsensitive, strict) ==
  LET r == Parse(enumType, s, caseInsensitive)
  IN IF r.kind # "err" \/ strict THEN r
     ELSE LET lit == ParseUintLit(s, enumType.bits)
          IN IF lit.err = "nil" THEN [kind |-> "ok", val |-> lit.val] ELSE r

ParseInt(enumType, s, caseInsensitive, strict) ==
  LET r == Parse(enumType, s, caseInsensitive)
  IN IF r.kind # "err" \/ strict THEN r
     ELSE LET lit == IF enumType.kind = "int" THEN ParseIntLit(s, enumType.bits)
                     ELSE ParseUintLit(s, enumType.bits)
          IN IF lit.err = "nil" THEN [kind |-> "ok", val |-> lit.val] ELSE r

\* ParseFlagsLoop changed: a piece's value is assigned to val, not OR-ed into it
RECURSIVE ParseFlagsLoop_Assign(_, _, _, _)
ParseFlagsLoop_Assign(enumType, fs, caseInsensitive, val) ==
  IF fs = << >> THEN [kind |-> "ok", val |-> val]
  ELSE LET f == TrimSpace(Head(fs))
           v == Parse(enumType, f, caseInsensitive)
       IN IF v.kind = "panic" THEN v
          ELSE IF v.kind = "ok"
          THEN IF enumType.kind # "uint" THEN [kind |-> "panic"]
               ELSE ParseFlagsLoop_Assign(enumType, Tail(fs), caseInsensitive, v.val)
          ELSE LET i == ParseUintLit(f, enumType.bits)
               IN IF i.err = "nil"
                  THEN ParseFlagsLoop_Assign(enumType, Tail(fs), caseInsensitive, i.val)
                  ELSE [kind |-> "err", val |-> 0, err |-> ParseError(f, enumType)]

\* the loop of ParseUintFlags over the pieces fs, val accumulated so far
RECURSIVE ParseFlagsLoop(_, _, _, _)
ParseFlagsLoop(enumType, fs, caseInsensitive, val) ==
  IF fs = << >> THEN [kind |-> "ok", val |-> val]
  ELSE LET f == TrimSpace(Head(fs))
           v == Parse(enumType, f, caseInsensitive)
       IN IF v.kind = "panic" THEN v
          ELSE IF v.kind = "ok"
          THEN IF enumType.kind # "uint" THEN [kind |-> "panic"]
               ELSE ParseFlagsLoop(enumType, Tail(fs), caseInsensitive, BitOr(val, v.val))
          ELSE LET i == ParseUintLit(f, enumType.bits)
               IN IF i.err = "nil"
                  THEN ParseFlagsLoop(enumType, Tail(fs), caseInsensitive, BitOr(val, i.val))
                  ELSE [kind |-> "err", val |-> 0, err |-> ParseError(f, enumType)]

ParseUintFlags(enumType, s, caseInsensitive) ==
  ParseFlagsLoop(enumType, Split(s), caseInsensitive, 0)

(***************************************************************************)
(* The inputs of the calls.                                                *)
(***************************************************************************)
\* the least and the greatest value of an integer type
MinValue(enumType) ==
  IF enumType.kind = "int" /\ enumType.bits <= MaxValueBits THEN -Pow2(enumType.bits - 1) ELSE 0

MaxValue(enumType) ==
  IF enumType.bits > MaxValueBits THEN Pow2(MaxValueBits) - 1
  ELSE IF enumType.kind = "int" THEN Pow2(enumType.bits - 1) - 1
  ELSE Pow2(enumType.bits) - 1

\* the values formatted as scalars
ScalarValues(enumType) ==
  IF enumType.kind = "string"
  THEN {<< >>, << "h", "t", "t", "p", "s" >>, << "f", "t", "p" >>}
  ELSE {v \in (-MaxScalar..MaxScalar) \cup {123, MinValue(enumType), MaxValue(enumType)} :
          v >= MinValue(enumType) /\ v <= MaxValue(enumType)}

\* the values formatted as flags
FlagValues(enumType) ==
  {v \in (0..MaxFlagValue) \cup {255, 262, 4101} : v <= MaxValue(enumType)}

\* the numeric bases passed to StringUintFlags
Bases == {2, 8, 10, 16}

\* the texts parsed: the names of the type's methods, their lower-case forms, and
\* names, literals and lists that are none of them
InputTexts(enumType) ==
  {enumType.methods[i].name : i \in 1..Len(enumType.methods)}
  \cup {ToLower(enumType.methods[i].name) : i \in 1..Len(enumType.methods)}
  \cup {<< "P", "u", "r", "p", "l", "e" >>,
        << "R", "E", "D" >>,
        << "b", "l", "u", "e" >>,
        << "1", "2", "3" >>,
        << "0", "x", "1", "5" >>,
        << "0", "x", "2" >>,
        << "0" >>,
        << "-", "1" >>,
        << "-", "1", "2", "8" >>,
        << "7", "0", "0", "0", "0" >>,
        << "3", "0", "0" >>,
        << >>,
        << "0", "x" >>,
        << "r", "e", "a", "d", ",", " ", "e", "x", "e", "c", "u", "t", "e" >>,
        << "r", "e", "a", "d", ",", " ", "e", "x", "e", "c", "u", "t", "e", ",", " ", "0", "x", "1", "0", "0", "1" >>,
        << " ", "W", "r", "i", "t", "e", " ", ",", "R", "e", "a", "d" >>,
        << "R", "e", "a", "d", ",", "B", "o", "g", "u", "s" >>,
        << "B", "o", "g", "u", "s", ",", " ", "R", "e", "a", "d" >>,
        << "R", "e", "a", "d", "," >>,
        << "4", ",", " ", "0", "x", "1", "0", "0" >>,
        << "1", "_", "0" >>,
        << "0", "1", "7" >>,
        << "0", "b", "1", "1" >>,
        << "+", "3" >>,
        << "R", "e", "a", "d", ",", " ", "I", "s", "S", "e", "t" >>}

(***************************************************************************)
(* The state: one caller that makes a call of the package and then may     *)
(* parse the text that a formatter returned (a round trip).  The package   *)
(* keeps nothing between calls, so every call starts from the state after  *)
(* construction; SpecConc below has callers that call again and again.     *)
(***************************************************************************)
VARIABLES
  pc,      \* "idle", "GetSymbols" (inside the loop of GetSymbols) or "done"
  op,      \* the package function called last
  typeId,  \* the enum type passed to it
  args,    \* its other arguments
  loop,    \* the loop of GetSymbols: m, the captured variables, the calls made
  result,  \* what the last finished call returned
  source   \* round trip: the formatted value whose text was parsed, if any

vars == << pc, op, typeId, args, loop, result, source >>

NoArgs == [value |-> 0, intBase |-> 0, s |-> << >>, caseInsensitive |-> FALSE,
           strict |-> FALSE, stopAt |-> 0]

NoSource == [op |-> "none"]

NoResult == [kind |-> "none"]

Init ==
  /\ pc = "idle"
  /\ op = "none"
  /\ typeId = "Color"
  /\ args = NoArgs
  /\ loop = LoopStart
  /\ result = NoResult
  /\ source = NoSource

enumType == EnumType(typeId)

\* the callback that function f, called with the arguments a, passes to GetSymbols
CallbackOf(f, a) ==
  CASE f \in {"String", "StringInt"} -> [kind |-> "String", value |-> a.value]
    [] f = "StringUintFlags" -> [kind |-> "Flags", value |-> a.value]
    [] f = "GetSymbols" -> [kind |-> "User", stopAt |-> a.stopAt]

\* the callback that the running function passes to GetSymbols
Callback == CallbackOf(op, args)

\* a call that enumerates the symbols enters GetSymbols
Enter(f, id, a) ==
  /\ pc = "idle"
  /\ pc' = "GetSymbols"
  /\ op' = f
  /\ typeId' = id
  /\ args' = a
  /\ loop' = LoopStart
  /\ source' = NoSource
  /\ result' = NoResult

CallGetSymbols ==
  \E id \in TypeIds, k \in 0..MaxStopAt :
    Enter("GetSymbols", id, [NoArgs EXCEPT !.stopAt = k])

CallString ==
  \E id \in TypeIds : \E v \in ScalarValues(EnumType(id)) :
    Enter("String", id, [NoArgs EXCEPT !.value = v])

CallStringInt ==
  \E id \in IntTypeIds : \E v \in ScalarValues(EnumType(id)) :
    Enter("StringInt", id, [NoArgs EXCEPT !.value = v])

CallStringUintFlags ==
  \E id \in UintTypeIds : \E v \in FlagValues(EnumType(id)) : \E b \in Bases :
    Enter("StringUintFlags", id, [NoArgs EXCEPT !.value = v, !.intBase = b])

\* one iteration of the loop of GetSymbols
GetSymbolsStep ==
  /\ pc = "GetSymbols"
  /\ ~ LoopDone(enumType, loop)
  /\ loop' = GetSymbolsBody(enumType, Callback, loop)
  /\ UNCHANGED << pc, op, typeId, args, result, source >>

\* what function f, called with the arguments a, returns after GetSymbols left its
\* loop in the state st; a panic of the callback goes through GetSymbols and f
FormatterReturn(f, a, st) ==
  CASE st.panicked -> [kind |-> "panic"]
    [] OTHER ->
         CASE f = "GetSymbols" -> NoResult
           [] f = "String" -> [kind |-> "text", text |-> st.acc.symbolResult]
           [] f = "StringInt" ->
                [kind |-> "text", text |-> StringIntReturn(a.value, st.acc.symbolResult)]
           [] f = "StringUintFlags" ->
                [kind |-> "text", text |-> FlagsReturn(a.value, a.intBase, st.acc)]

\* GetSymbols returns, and the function that called it returns its text
Return ==
  /\ pc = "GetSymbols"
  /\ LoopDone(enumType, loop)
  /\ pc' = "done"
  /\ result' = FormatterReturn(op, args, loop)
  /\ UNCHANGED << op, typeId, args, loop, source >>

\* what parser f returns for the type t and the arguments a
ParserReturn(f, t, a) ==
  CASE f = "Parse" -> Parse(t, a.s, a.caseInsensitive)
    [] f = "ParseInt" -> ParseInt(t, a.s, a.caseInsensitive, a.strict)
    [] f = "ParseUintFlags" -> ParseUintFlags(t, a.s, a.caseInsensitive)

\* a parser runs from its call to its return; src tells a round trip's formatted value
Finish(f, id, a, src) ==
  /\ pc \in {"idle", "done"}
  /\ pc' = "done"
  /\ op' = f
  /\ typeId' = id
  /\ args' = a
  /\ result' = ParserReturn(f, EnumType(id), a)
  /\ source' = src
  /\ loop' = LoopStart

CallParse ==
  \E id \in TypeIds, ci \in BOOLEAN : \E s \in InputTexts(EnumType(id)) :
    /\ pc = "idle"
    /\ Finish("Parse", id, [NoArgs EXCEPT !.s = s, !.caseInsensitive = ci], NoSource)

CallParseInt ==
  \E id \in IntTypeIds, ci \in BOOLEAN, strict \in BOOLEAN : \E s \in InputTexts(EnumType(id)) :
    /\ pc = "idle"
    /\ Finish("ParseInt", id,
              [NoArgs EXCEPT !.s = s, !.caseInsensitive = ci, !.strict = strict], NoSource)

CallParseUintFlags ==
  \E id \in UintTypeIds, ci \in BOOLEAN : \E s \in InputTexts(EnumType(id)) :
    /\ pc = "idle"
    /\ Finish("ParseUintFlags", id, [NoArgs EXCEPT !.s = s, !.caseInsensitive = ci], NoSource)

\* the text a formatter just returned
Formatted(f) == pc = "done" /\ op = f /\ result.kind = "text"

FormattedSource == [op |-> op, value |-> args.value, intBase |-> args.intBase]

\* the round trips: the text that a formatter returned is parsed for the same type
RoundTripParse ==
  \E ci \in BOOLEAN :
    /\ Formatted("String")
    /\ Finish("Parse", typeId, [NoArgs EXCEPT !.s = result.text, !.caseInsensitive = ci],
              FormattedSource)

RoundTripParseInt ==
  \E ci \in BOOLEAN, strict \in BOOLEAN :
    /\ Formatted("StringInt")
    /\ Finish("ParseInt", typeId,
              [NoArgs EXCEPT !.s = result.text, !.caseInsensitive = ci, !.strict = strict],
              FormattedSource)

RoundTripParseUintFlags ==
  \E ci \in BOOLEAN :
    /\ Formatted("StringUintFlags")
    /\ Finish("ParseUintFlags", typeId, [NoArgs EXCEPT !.s = result.text, !.caseInsensitive = ci],
              FormattedSource)

Next ==
  \/ CallGetSymbols
  \/ CallString
  \/ CallStringInt
  \/ CallStringUintFlags
  \/ GetSymbolsStep
  \/ Return
  \/ CallParse
  \/ CallParseInt
  \/ CallParseUintFlags
  \/ RoundTripParse
  \/ RoundTripParseInt
  \/ RoundTripParseUintFlags

Spec == Init /\ [][Next]_vars

(***************************************************************************)
(* Concurrent callers.  Under SpecConc every variable holds one value per  *)
(* caller (goroutine): pc[c], op[c], typeId[c], args[c] and result[c] are  *)
(* those of caller c, and loop[k] holds the local variables of the call    *)
(* whose frame is k: the loop variable of GetSymbols and the variables the *)
(* callback captures.  The steps of the callers interleave, one iteration  *)
(* of the loop of GetSymbols at a time, and a caller makes one call after  *)
(* the other.                                                              *)
(***************************************************************************)
NumCallers == 2

Callers == 1..NumCallers

\* the text "read, write"
ReadWrite == << "r", "e", "a", "d", ",", " ", "w", "r", "i", "t", "e" >>

\* the calls that the callers make: the function, the type and the arguments
ConcCalls ==
  << [f |-> "GetSymbols", id |-> "Perm", a |-> [NoArgs EXCEPT !.stopAt = 2]],
     [f |-> "String", id |-> "Perm", a |-> [NoArgs EXCEPT !.value = 3]],
     [f |-> "StringInt", id |-> "Shade", a |-> [NoArgs EXCEPT !.value = -2]],
     [f |-> "StringUintFlags", id |-> "Perm", a |-> [NoArgs EXCEPT !.value = 7, !.intBase = 16]],
     [f |-> "Parse", id |-> "Perm", a |-> [NoArgs EXCEPT !.s = << "P", "u", "r", "p", "l", "e" >>]],
     [f |-> "ParseInt", id |-> "Perm", a |-> [NoArgs EXCEPT !.s = << "0", "x", "1", "5" >>]],
     [f |-> "ParseUintFlags", id |-> "Perm",
      a |-> [NoArgs EXCEPT !.s = ReadWrite, !.caseInsensitive = TRUE]] >>

\* the functions that enumerate the symbols, and the parsers
Enumerators == {"GetSymbols", "String", "StringInt", "StringUintFlags"}

\* FrameOf changed: every call uses the same variables
FrameOf_Shared(c) == 1

\* the frame of the call that caller c is making: m, bitsFound, symbolNames and
\* symbolResult are declared inside the functions, so each call has its own
FrameOf(c) == c

ConcInit ==
  /\ pc = [c \in Callers |-> "idle"]
  /\ op = [c \in Callers |-> "none"]
  /\ typeId = [c \in Callers |-> "Color"]
  /\ args = [c \in Callers |-> NoArgs]
  /\ loop = [k \in Callers |-> LoopStart]
  /\ result = [c \in Callers |-> NoResult]
  /\ source = NoSource

\* caller c calls a function that enumerates the symbols: its variables are created
CallerEnters(c) ==
  \E i \in 1..Len(ConcCalls) :
    LET call == ConcCalls[i] IN
    /\ call.f \in Enumerators
    /\ pc[c] \in {"idle", "done"}
    /\ pc' = [pc EXCEPT ![c] = "GetSymbols"]
    /\ op' = [op EXCEPT ![c] = call.f]
    /\ typeId' = [typeId EXCEPT ![c] = call.id]
    /\ args' = [args EXCEPT ![c] = call.a]
    /\ loop' = [loop EXCEPT ![FrameOf(c)] = LoopStart]
    /\ result' = [result EXCEPT ![c] = NoResult]
    /\ UNCHANGED source

\* one iteration of the loop of GetSymbols in the call of caller c
CallerSteps(c) ==
  /\ pc[c] = "GetSymbols"
  /\ ~ LoopDone(EnumType(typeId[c]), loop[FrameOf(c)])
  /\ loop' = [loop EXCEPT ![FrameOf(c)] =
                GetSymbolsBody(EnumType(typeId[c]), CallbackOf(op[c], args[c]), @)]
  /\ UNCHANGED << pc, op, typeId, args, result, source >>

\* GetSymbols returns in the call of caller c, and the call returns
CallerReturns(c) ==
  /\ pc[c] = "GetSymbols"
  /\ LoopDone(EnumType(typeId[c]), loop[FrameOf(c)])
  /\ pc' = [pc EXCEPT ![c] = "done"]
  /\ result' = [result EXCEPT ![c] = FormatterReturn(op[c], args[c], loop[FrameOf(c)])]
  /\ UNCHANGED << op, typeId, args, loop, source >>

\* caller c calls a parser, which returns; its call enumerates nothing
CallerParses(c) ==
  \E i \in 1..Len(ConcCalls) :
    LET call == ConcCalls[i] IN
    /\ call.f \notin Enumerators
    /\ pc[c] \in {"idle", "done"}
    /\ pc' = [pc EXCEPT ![c] = "done"]
    /\ op' = [op EXCEPT ![c] = call.f]
    /\ typeId' = [typeId EXCEPT ![c] = call.id]
    /\ args' = [args EXCEPT ![c] = call.a]
    /\ loop' = [loop EXCEPT ![FrameOf(c)] = LoopStart]
    /\ result' = [result EXCEPT ![c] = ParserReturn(call.f, EnumType(call.id), call.a)]
    /\ UNCHANGED source

ConcNext ==
  \E c \in Callers :
    \/ CallerEnters(c)
    \/ CallerSteps(c)
    \/ CallerReturns(c)
    \/ CallerParses(c)

SpecConc == ConcInit /\ [][ConcNext]_vars

(***************************************************************************)
(* Properties.                                                             *)
(***************************************************************************)
\* the declared methods of a type that take only the receiver and return the type
DeclaredSymbols(t) ==
  LET isSymbol(m) == m.numIn = 1 /\ m.outs = << "enum" >>
  IN SelectSeq(t.methods, isSymbol)

\* v is the value of a declared symbol of t
IsSymbolValue(t, v) == \E i \in 1..Len(DeclaredSymbols(t)) : DeclaredSymbols(t)[i].value = v

\* s is the name of a declared symbol of t, under the case rule; the values of those symbols
MatchingSymbolValues(t, s, caseInsensitive) ==
  {DeclaredSymbols(t)[i].value : i \in
     {j \in 1..Len(DeclaredSymbols(t)) :
        IF caseInsensitive THEN ToLower(DeclaredSymbols(t)[j].name) = ToLower(s)
        ELSE DeclaredSymbols(t)[j].name = s}}

\* no other method of t has a name that differs from name only in letter case
NoCaseTwin(t, name) ==
  \A i \in 1..Len(t.methods) :
    ToLower(t.methods[i].name) = ToLower(name) => t.methods[i].name = name

\* a parser has parsed the text that formatter f returned for source.value
RoundTripDone(f, parser) == pc = "done" /\ op = parser /\ source.op = f

\* the parser returned v and no error
Returned(v) == result.kind = "ok" /\ result.val = v

\* C1: flag round trip: for every unsigned enum type and every value v of it, v = 0
\* included, ParseUintFlags of the text StringUintFlags(v, type, 16) succeeds and
\* returns exactly v.
C1_FlagRoundTrip ==
  (RoundTripDone("StringUintFlags", "ParseUintFlags") /\ source.intBase = 16)
    => Returned(source.value)

\* C2 as stated: for every declared symbol, parsing the text that String / StringInt
\* returns for its value returns that value with no error, for both settings of
\* caseInsensitive and of strict.
C2_ScalarRoundTripAnyCase ==
  ((RoundTripDone("String", "Parse") \/ RoundTripDone("StringInt", "ParseInt"))
   /\ IsSymbolValue(enumType, source.value))
    => Returned(source.value)

\* C2 as amended: the round trip of a declared symbol's value returns that value with
\* no error when caseInsensitive is false, and when caseInsensitive is true provided no
\* other method of the type has a name that differs from the formatted name only in
\* letter case; both for strict and for lenient parsing.
C2_ScalarRoundTrip ==
  ((RoundTripDone("String", "Parse") \/ RoundTripDone("StringInt", "ParseInt"))
   /\ IsSymbolValue(enumType, source.value)
   /\ (args.caseInsensitive => NoCaseTwin(enumType, args.s)))
    => Returned(source.value)

\* a symbol that shares its value with another one has made the round trip, case-insensitively
C2_Witness ==
  /\ RoundTripDone("StringInt", "ParseInt")
  /\ typeId = "Shade"
  /\ source.value = -2
  /\ args.caseInsensitive
  /\ args.strict
  /\ Returned(-2)

\* C3: lenient round trip of a value without symbol: for every integer enum type and
\* every value v of it that no symbol has, ParseInt(StringInt(v), strict = false)
\* succeeds and returns v.
C3_LenientRoundTrip ==
  (RoundTripDone("StringInt", "ParseInt")
   /\ ~ args.strict
   /\ ~ IsSymbolValue(enumType, source.value))
    => Returned(source.value)

\* a negative value without symbol has made the lenient round trip
C3_Witness ==
  /\ RoundTripDone("StringInt", "ParseInt")
  /\ ~ args.strict
  /\ ~ IsSymbolValue(enumType, source.value)
  /\ source.value < 0
  /\ Returned(source.value)

\* C4: strict rejection: Parse and ParseInt(strict = true) return a value only when
\* the text is, under the case rule, the name of a declared symbol, and then that
\* symbol's value; for every other text, the name of a method that is no symbol method
\* included, they return no value and an error that names the text and the type.
C4_StrictRejection ==
  (pc = "done" /\ (op = "Parse" \/ (op = "ParseInt" /\ args.strict)))
    => IF MatchingSymbolValues(enumType, args.s, args.caseInsensitive) # {}
       THEN /\ result.kind = "ok"
            /\ result.val \in MatchingSymbolValues(enumType, args.s, args.caseInsensitive)
       ELSE /\ result.kind = "err"
            /\ "val" \notin DOMAIN result
            /\ result.err = [text |-> args.s, typeName |-> enumType.name]

\* the names of the calls that the callback received, in order
CallNames == [i \in 1..Len(loop.calls) |-> loop.calls[i].name]

\* GetSymbols has returned to a caller whose callback never asks to stop
EnumeratedAll == pc = "done" /\ op = "GetSymbols" /\ args.stopAt = 0

\* C5: with a callback that always continues, GetSymbols invokes the callback exactly
\* once for each method that takes only the receiver and returns the enum type, with
\* the method's name and value, and never for another method; for a type without
\* such a method it makes no invocation.
C5_OncePerSymbolMethod ==
  EnumeratedAll =>
    \A i \in 1..Len(enumType.methods) :
      LET m == enumType.methods[i]
          at == {j \in 1..Len(loop.calls) : loop.calls[j].name = m.name}
      IN IF m.numIn = 1 /\ m.outs = << "enum" >>
         THEN Cardinality(at) = 1 /\ \A j \in at : loop.calls[j].value = m.value
         ELSE at = {}

\* the four symbols of Access were enumerated, its other methods were not
C5_Witness ==
  /\ EnumeratedAll
  /\ typeId = "Access"
  /\ Len(loop.calls) = 4
  /\ Len(enumType.methods) = 7

\* C6 as stated: GetSymbols visits the symbols in declaration order, so that the flags
\* Write|Execute are formatted with "Write" before "Execute".
C6_DeclarationOrder ==
  /\ EnumeratedAll =>
       CallNames = [i \in 1..Len(DeclaredSymbols(enumType)) |-> DeclaredSymbols(enumType)[i].name]
  /\ (pc = "done" /\ op = "StringUintFlags" /\ typeId = "Access" /\ args.value = 6) =>
       result.text = << "W", "r", "i", "t", "e", ",", " ", "E", "x", "e", "c", "u", "t", "e" >>

\* C6 as amended: GetSymbols visits the symbols in the order of their names (the
\* byte-wise order of reflect's method table), the same on every call: Execute, None,
\* Read, Write for Access; so the flags Write|Execute are formatted "Execute, Write".
C6_NameOrder ==
  /\ EnumeratedAll =>
       \A i \in 1..Len(loop.calls), j \in 1..Len(loop.calls) :
         i < j => TextLess(loop.calls[i].name, loop.calls[j].name)
  /\ (EnumeratedAll /\ typeId = "Access") =>
       CallNames = << << "E", "x", "e", "c", "u", "t", "e" >>, << "N", "o", "n", "e" >>,
                      << "R", "e", "a", "d" >>, << "W", "r", "i", "t", "e" >> >>
  /\ (pc = "done" /\ op = "StringUintFlags" /\ typeId = "Access" /\ args.value = 6) =>
       result.text = << "E", "x", "e", "c", "u", "t", "e", ",", " ", "W", "r", "i", "t", "e" >>

\* the symbols of Access, declared None, Read, Write, Execute, were all enumerated
C6_Witness ==
  /\ EnumeratedAll
  /\ typeId = "Access"
  /\ Len(loop.calls) = 4
  /\ DeclaredSymbols(enumType)[1].name = << "N", "o", "n", "e" >>

\* C7: early stop: when the callback returns stop on the k-th symbol, GetSymbols
\* returns at once: the callback is invoked exactly k times, and no later symbol
\* method is called.
C7_EarlyStop ==
  (op = "GetSymbols" /\ args.stopAt > 0) =>
    /\ Len(loop.calls) <= args.stopAt
    /\ Len(loop.invoked) <= args.stopAt
    /\ loop.returned => (Len(loop.calls) = args.stopAt /\ Len(loop.invoked) = args.stopAt)
    /\ (pc = "done" /\ args.stopAt <= Len(DeclaredSymbols(enumType))) =>
         (loop.returned /\ Len(loop.calls) = args.stopAt)

\* the callback stopped the enumeration at the second of four symbols
C7_Witness ==
  /\ pc = "done"
  /\ op = "GetSymbols"
  /\ args.stopAt = 2
  /\ Len(DeclaredSymbols(enumType)) = 4
  /\ loop.returned
  /\ Len(loop.calls) = 2

\* the decimal digits ds read as a number
RECURSIVE DecimalOf(_, _)
DecimalOf(ds, n) ==
  IF ds = << >> THEN n
  ELSE DecimalOf(Tail(ds), 10 * n + (CHOOSE d \in 0..9 : DigitChar(d) = Head(ds)))

\* text is the decimal rendering of v: an optional minus sign and digits without a
\* leading zero
IsDecimalOf(text, v) ==
  LET ds == IF text # << >> /\ Head(text) = "-" THEN Tail(text) ELSE text
  IN /\ ds # << >>
     /\ \A i \in 1..Len(ds) : IsDigit(ds[i])
     /\ (Len(ds) > 1 => ds[1] # "0")
     /\ (text[1] = "-") = (v < 0)
     /\ DecimalOf(ds, 0) = (IF v < 0 THEN -v ELSE v)

\* the indices, in enumeration order, of the symbols of value v
SymbolsOfValue(t, v) == {i \in 1..Len(Symbols(t)) : Symbols(t)[i].value = v}

\* the least element of a non-empty set of numbers
Least(S) == CHOOSE i \in S : \A j \in S : i <= j

\* C8: String returns the name of the first symbol, in enumeration order, whose value
\* equals the value, and the empty text when there is none; StringInt returns that
\* name when there is one and else the value in decimal (Color: 1 -> "Red",
\* 123 -> "123").
C8_ScalarFormatting ==
  /\ (pc = "done" /\ op \in {"String", "StringInt"}) =>
       LET at == SymbolsOfValue(enumType, args.value)
       IN IF at # {} THEN result.text = Symbols(enumType)[Least(at)].name
          ELSE IF op = "String" THEN result.text = << >>
          ELSE IsDecimalOf(result.text, args.value)
  /\ (pc = "done" /\ op = "StringInt" /\ typeId = "Color" /\ args.value = 1) =>
       result.text = << "R", "e", "d" >>
  /\ (pc = "done" /\ op = "StringInt" /\ typeId = "Color" /\ args.value = 123) =>
       result.text = << "1", "2", "3" >>

\* a value that two symbols have was formatted
C8_Witness ==
  /\ pc = "done"
  /\ op = "StringInt"
  /\ Cardinality(SymbolsOfValue(enumType, args.value)) = 2
  /\ result.text = << "B", "l", "a", "c", "k" >>

\* the names joined by ", "
RECURSIVE JoinNames(_)
JoinNames(names) ==
  IF names = << >> THEN << >>
  ELSE IF Len(names) = 1 THEN names[1]
  ELSE names[1] \o << ",", " " >> \o JoinNames(Tail(names))

\* the names, in enumeration order, of the symbols whose non-zero value has all its bits in v
NamesWithin(t, v) ==
  LET within(sym) == sym.value # 0 /\ BitAnd(v, sym.value) = sym.value
      syms == SelectSeq(Symbols(t), within)
  IN [i \in 1..Len(syms) |-> syms[i].name]

\* text is a literal with the prefix 0x
IsPrefixedLiteral(text) ==
  /\ Len(text) > 2
  /\ SubSeq(text, 1, 2) = << "0", "x" >>
  /\ \A i \in 3..Len(text) : DigitVal(text[i]) < 36

\* C9: for a non-zero value, StringUintFlags lists the name of a symbol if and only if
\* the symbol's value v is non-zero and value & v = v; the names are in enumeration
\* order, each once, separated by ", " (Access, 0x106, base 16:
\* "Execute, Write, 0x100").
C9_FlagMembership ==
  /\ (pc = "done" /\ op = "StringUintFlags" /\ args.value # 0) =>
       LET names == JoinNames(NamesWithin(enumType, args.value))
           sep == IF names = << >> THEN << >> ELSE << ",", " " >>
           n == Len(names \o sep)
       IN \/ result.text = names
          \/ /\ Len(result.text) > n
             /\ SubSeq(result.text, 1, n) = names \o sep
             /\ IsPrefixedLiteral(SubSeq(result.text, n + 1, Len(result.text)))
  /\ (pc = "done" /\ op = "StringUintFlags" /\ typeId = "Access" /\ args.value = 262
      /\ args.intBase = 16) =>
       result.text = << "E", "x", "e", "c", "u", "t", "e", ",", " ", "W", "r", "i", "t", "e",
                        ",", " ", "0", "x", "1", "0", "0" >>

\* a value with one bit of a two-bit symbol was formatted: that symbol is not listed
C9_Witness ==
  /\ pc = "done"
  /\ op = "StringUintFlags"
  /\ typeId = "Perm"
  /\ args.value = 5
  /\ args.intBase = 16
  /\ result.text = << "R", "e", "a", "d", ",", " ", "0", "x", "4" >>

\* C10: StringUintFlags(0) returns exactly the name of the first symbol, in
\* enumeration order, whose value is 0, and the enumeration stops at that symbol; for
\* a type without a zero-valued symbol it returns the empty text.
C10_FlagZero ==
  (pc = "done" /\ op = "StringUintFlags" /\ args.value = 0) =>
    LET at == SymbolsOfValue(enumType, 0)
    IN IF at # {}
       THEN /\ result.text = Symbols(enumType)[Least(at)].name
            /\ loop.returned
            /\ Len(loop.calls) = Least(at)
            /\ loop.calls[Least(at)].name = Symbols(enumType)[Least(at)].name
       ELSE result.text = << >>

\* zero was formatted for a type with two zero-valued symbols
C10_Witness ==
  /\ pc = "done"
  /\ op = "StringUintFlags"
  /\ args.value = 0
  /\ Cardinality(SymbolsOfValue(enumType, 0)) = 2
  /\ result.text = << "N", "o", "n", "e" >>

\* the union of the bits of the symbols that StringUintFlags lists for v
MatchedBits(t, v) ==
  LET within(sym) == sym.value # 0 /\ BitAnd(v, sym.value) = sym.value
      syms == SelectSeq(Symbols(t), within)
      or[i \in 0..Len(syms)] == IF i = 0 THEN 0 ELSE BitOr(or[i - 1], syms[i].value)
  IN or[Len(syms)]

\* the last comma-separated element of a text
LastElement(text) == TrimSpace(Split(text)[Len(Split(text))])

\* StringUintFlags has returned
FlagsDone == pc = "done" /\ op = "StringUintFlags"

\* C11: unmatched bits: whenever the union of the matched bits differs from the value,
\* the last element of the text of StringUintFlags is value XOR matched bits in the
\* base passed, with a prefix for that base, whatever the base (2, 8, 10, 16): read
\* as a literal it yields exactly the remaining bits; when the union equals the value
\* no such element is appended.
C11_UnmatchedBitsInBase ==
  FlagsDone =>
    LET matched == MatchedBits(enumType, args.value)
        lit == ParseUintLit(LastElement(result.text), enumType.bits)
    IN IF matched # args.value
       THEN lit.err = "nil" /\ lit.val = BitXor(args.value, matched)
       ELSE result.text = JoinNames(NamesWithin(enumType, args.value))
            \/ (args.value = 0 /\ SymbolsOfValue(enumType, 0) # {})

\* the hexadecimal digits ds read as a number
RECURSIVE HexOf(_, _)
HexOf(ds, n) == IF ds = << >> THEN n ELSE HexOf(Tail(ds), 16 * n + DigitVal(Head(ds)))

\* text without a sign is a decimal literal or a literal with the prefix 0x
IsDecimalLiteral(text) ==
  /\ text # << >>
  /\ \A i \in 1..Len(text) : IsDigit(text[i])
  /\ (Len(text) > 1 => text[1] # "0")

IsHexLiteral(text) ==
  /\ Len(text) > 2
  /\ text[1] = "0"
  /\ text[2] \in {"x", "X"}
  /\ \A i \in 3..Len(text) : DigitVal(text[i]) < 16

\* the number that an unsigned decimal or 0x literal of at most 7 digits denotes,
\* -1 for another text
UnsignedLiteral(text) ==
  IF IsDecimalLiteral(text) /\ Len(text) <= 7 THEN DecimalOf(text, 0)
  ELSE IF IsHexLiteral(text) /\ Len(text) <= 9 THEN HexOf(SubSeq(text, 3, Len(text)), 0)
  ELSE -1

\* text is a decimal or 0x literal that fits the width and signedness of t
FitsType(t, text) ==
  LET signed == t.kind = "int" /\ text # << >> /\ Head(text) \in {"+", "-"}
      n == UnsignedLiteral(IF signed THEN Tail(text) ELSE text)
  IN /\ t.kind \in {"int", "uint"}
     /\ n >= 0
     /\ IF t.kind = "uint" THEN FitsBelowPow2(n, t.bits)
        ELSE IF signed /\ Head(text) = "-" THEN FitsBelowPow2(n - 1, t.bits - 1)
        ELSE FitsBelowPow2(n, t.bits - 1)

\* the number that such a literal denotes
LiteralOf(t, text) ==
  IF t.kind = "int" /\ Head(text) = "-" THEN -UnsignedLiteral(Tail(text))
  ELSE IF t.kind = "int" /\ Head(text) = "+" THEN UnsignedLiteral(Tail(text))
  ELSE UnsignedLiteral(text)

\* the call returned no value and an error that names text and the type
Rejected(text) ==
  /\ result.kind = "err"
  /\ result.err = [text |-> text, typeName |-> enumType.name]

\* C12: lenient fallback: when the text matches no symbol and strict is false,
\* ParseInt returns the literal's value and no error if and only if the text is a
\* decimal or 0x-prefixed literal that fits the width and signedness of the type;
\* else it returns no value (nil) and an error that names the text and the type.
C12_LenientFallback ==
  (pc = "done" /\ op = "ParseInt" /\ ~ args.strict
   /\ MatchingSymbolValues(enumType, args.s, args.caseInsensitive) = {})
    => IF FitsType(enumType, args.s)
       THEN Returned(LiteralOf(enumType, args.s))
       ELSE Rejected(args.s) /\ "val" \notin DOMAIN result

\* the pieces of a flag text, trimmed
Pieces(text) == [i \in 1..Len(Split(text)) |-> TrimSpace(Split(text)[i])]

\* the piece names a symbol, under the case rule, or is a valid unsigned literal of
\* the type's width
Resolves(t, piece, caseInsensitive) ==
  \/ MatchingSymbolValues(t, piece, caseInsensitive) # {}
  \/ ParseUintLit(piece, t.bits).err = "nil"

\* C13: flag parsing is atomic on failure: if a piece of the text is neither a symbol
\* name nor a valid unsigned literal, ParseUintFlags returns 0 and an error that names
\* that piece and the type, whatever the earlier pieces resolved to.
C13_AtomicFailure ==
  (pc = "done" /\ op = "ParseUintFlags"
   /\ \E i \in 1..Len(Pieces(args.s)) : ~ Resolves(enumType, Pieces(args.s)[i], args.caseInsensitive))
    => LET bad == Least({i \in 1..Len(Pieces(args.s)) :
                           ~ Resolves(enumType, Pieces(args.s)[i], args.caseInsensitive)})
       IN Rejected(Pieces(args.s)[bad]) /\ result.val = 0

\* the value that a piece resolves to: the value of the first symbol, in enumeration
\* order, that it names, else its number as a decimal or 0x literal
PieceValue(t, piece, caseInsensitive) ==
  LET named(sym) == IF caseInsensitive THEN ToLower(sym.name) = ToLower(piece)
                    ELSE sym.name = piece
      syms == SelectSeq(Symbols(t), named)
  IN IF syms # << >> THEN syms[1].value ELSE UnsignedLiteral(piece)

\* every piece names a symbol or is a decimal or 0x literal that fits
AllPiecesResolve(t, text, caseInsensitive) ==
  \A i \in 1..Len(Pieces(text)) :
    \/ MatchingSymbolValues(t, Pieces(text)[i], caseInsensitive) # {}
    \/ FitsType(t, Pieces(text)[i])

\* the bitwise OR of the values of the pieces
OrOfPieces(t, text, caseInsensitive) ==
  LET ps == Pieces(text)
      or[i \in 0..Len(ps)] ==
        IF i = 0 THEN 0 ELSE BitOr(or[i - 1], PieceValue(t, ps[i], caseInsensitive))
  IN or[Len(ps)]

\* C14: flag parsing accumulates: when every piece resolves, ParseUintFlags returns
\* the bitwise OR, over the trimmed comma-separated pieces, of the symbol's value for a
\* piece that names a symbol and else of the piece's value as a decimal or 0x literal
\* (Access: "read, execute" case-insensitively gives 0x5, "read, execute, 0x1001"
\* gives 0x1005).
C14_FlagAccumulation ==
  /\ (pc = "done" /\ op = "ParseUintFlags"
      /\ AllPiecesResolve(enumType, args.s, args.caseInsensitive)) =>
       Returned(OrOfPieces(enumType, args.s, args.caseInsensitive))
  /\ (pc = "done" /\ op = "ParseUintFlags" /\ typeId = "Access" /\ args.caseInsensitive
      /\ args.s = << "r", "e", "a", "d", ",", " ", "e", "x", "e", "c", "u", "t", "e" >>) =>
       Returned(5)

\* three pieces, two symbols in lower case and a literal, were OR-ed into 0x1005
C14_Witness ==
  /\ pc = "done"
  /\ op = "ParseUintFlags"
  /\ typeId = "Access"
  /\ args.caseInsensitive
  /\ Len(Pieces(args.s)) = 3
  /\ Returned(4101)

\* the symbols, in enumeration order, whose lower-case name is that of text
FoldedSymbols(t, text) ==
  LET same(sym) == ToLower(sym.name) = ToLower(text)
  IN SelectSeq(Symbols(t), same)

\* Parse has returned for a text that is the name of a symbol up to letter case
ParsedFolded ==
  pc = "done" /\ op = "Parse" /\ FoldedSymbols(enumType, args.s) # << >>

\* with caseInsensitive, the value of the first symbol whose lower-case name matches;
\* without, a value only for the exactly-cased name of a symbol
FirstFoldedSymbol ==
  ParsedFolded =>
    IF args.caseInsensitive THEN Returned(FoldedSymbols(enumType, args.s)[1].value)
    ELSE (result.kind = "ok") =
           (\E i \in 1..Len(Symbols(enumType)) : Symbols(enumType)[i].name = args.s)

\* Parse returned what Parse(name, false) returns for the exactly-cased name
ReturnedAsExact(name) ==
  LET exact == Parse(enumType, name, FALSE)
  IN exact.kind = "ok" /\ Returned(exact.val)

\* C15 as stated: with caseInsensitive, Parse returns the value of the first symbol, in
\* enumeration order, whose lower-case name is that of the input, so that for a symbol
\* named Red the inputs red, RED and Red all return what Parse("Red", false) returns;
\* without it only the exactly-cased name matches.
C15_CaseFoldAnySymbol ==
  /\ FirstFoldedSymbol
  /\ (ParsedFolded /\ args.caseInsensitive) =>
       \A i \in 1..Len(FoldedSymbols(enumType, args.s)) :
         ReturnedAsExact(FoldedSymbols(enumType, args.s)[i].name)

\* C15 as amended: with caseInsensitive, Parse returns the value of the first symbol,
\* in enumeration order, whose lower-case name is that of the input; for a symbol
\* named Red whose name no other method shares up to letter case, the inputs red, RED
\* and Red all return what Parse("Red", false) returns; without caseInsensitive only
\* the exactly-cased name matches.
C15_CaseFold ==
  /\ FirstFoldedSymbol
  /\ (ParsedFolded /\ args.caseInsensitive) =>
       \A i \in 1..Len(FoldedSymbols(enumType, args.s)) :
         NoCaseTwin(enumType, FoldedSymbols(enumType, args.s)[i].name) =>
           ReturnedAsExact(FoldedSymbols(enumType, args.s)[i].name)

\* "RED" was parsed case-insensitively to the value of the symbol Red
C15_Witness ==
  /\ ParsedFolded
  /\ args.caseInsensitive
  /\ typeId = "Color"
  /\ args.s = << "R", "E", "D" >>
  /\ Returned(1)

\* C16: formatting is total: StringInt and StringUintFlags return a text for every
\* value, and when no symbol matches the value (flag value 0 on a type without
\* zero-valued symbol included) the text is a numeric literal of that value.
C16_FormattingTotal ==
  /\ (pc = "done" /\ op \in {"StringInt", "StringUintFlags"}) => result.kind = "text"
  /\ (pc = "done" /\ op = "StringInt" /\ ~ IsSymbolValue(enumType, args.value)) =>
       IsDecimalOf(result.text, args.value)
  /\ (FlagsDone /\ args.intBase = 16 /\ MatchedBits(enumType, args.value) = 0
      /\ ~ IsSymbolValue(enumType, args.value)) =>
       LET lit == ParseUintLit(result.text, enumType.bits)
       IN lit.err = "nil" /\ lit.val = args.value

\* the value of the symbols that the enumeration of StringUintFlags has listed so far
ListedBits ==
  LET within(c) == c.value # 0 /\ BitAnd(args.value, c.value) = c.value
      cs == SelectSeq(loop.calls, within)
      or[i \in 0..Len(cs)] == IF i = 0 THEN 0 ELSE BitOr(or[i - 1], cs[i].value)
  IN or[Len(cs)]

\* C18: matched bits: at every step of the enumeration inside StringUintFlags the
\* accumulated bits are bits of the value (bitsFound & value = bitsFound), so that the
\* trailing literal value XOR bitsFound is value AND NOT bitsFound, shares no bit with
\* bitsFound, and the OR of the listed symbols' values with it is the value.
C18_MatchedBits ==
  (op = "StringUintFlags" /\ pc \in {"GetSymbols", "done"}) =>
    LET bitsFound == loop.acc.bitsFound
        rest == BitXor(args.value, bitsFound)
    IN /\ BitAnd(bitsFound, args.value) = bitsFound
       /\ rest = args.value - bitsFound
       /\ BitAnd(rest, bitsFound) = 0
       /\ bitsFound = ListedBits
       /\ BitOr(ListedBits, rest) = args.value

\* inside the enumeration, two symbols are matched and bits of the value remain
C18_Witness ==
  /\ op = "StringUintFlags"
  /\ pc = "GetSymbols"
  /\ typeId = "Access"
  /\ args.value = 262
  /\ loop.acc.bitsFound = 6
  /\ Len(loop.calls) = 4

\* what function f returns for the type t and the arguments a when it runs alone
RunAlone(f, t, a) ==
  IF f \in Enumerators THEN FormatterReturn(f, a, GetSymbols(t, CallbackOf(f, a)))
  ELSE ParserReturn(f, t, a)

\* the symbols that the callback of caller c was passed
PassedTo(c) == loop[FrameOf(c)].acc.seen

\* C17: statelessness under concurrency: under every interleaving of the calls of the
\* callers, on the same or on different types, and after every sequence of earlier
\* calls (failed parses and early-stopped enumerations included), a call returns what
\* it returns when it runs alone on the same arguments, and the callback of
\* GetSymbols is passed the symbols it is passed when the enumeration runs alone.
C17_Stateless ==
  \A c \in Callers :
    pc[c] = "done" =>
      /\ result[c] = RunAlone(op[c], EnumType(typeId[c]), args[c])
      /\ op[c] = "GetSymbols" =>
           PassedTo(c) = GetSymbols(EnumType(typeId[c]), CallbackOf(op[c], args[c])).acc.seen

\* caller 1 has formatted the flags 0x7 while caller 2, in a call for the same value
\* and type, is inside its enumeration and has matched symbols
C17_Witness ==
  /\ pc[1] = "done"
  /\ op[1] = "StringUintFlags"
  /\ result[1].kind = "text"
  /\ Len(result[1].text) > 0
  /\ pc[2] = "GetSymbols"
  /\ op[2] = "StringUintFlags"
  /\ typeId[2] = typeId[1]
  /\ loop[FrameOf(2)].m = 2
  /\ loop[FrameOf(2)].acc.bitsFound = 3

====
